---- MODULE Spec2Model ----
(***************************************************************************)
(* Model of backend/services/chunking_service.py: ChunkingService.         *)
(* chunk_text and its per-page splitters.                                  *)
(*                                                                         *)
(* A Python str is a sequence of one-character strings.  A dict with       *)
(* optional keys is a function whose DOMAIN is the set of keys present.    *)
(* An optional value is None or Some(v).                                   *)
(***************************************************************************)
EXTENDS Integers, Sequences, FiniteSets, TLC

(***************************************************************************)
(* Bounds of the model.                                                    *)
(***************************************************************************)
\* longest page text enumerated character by character
MaxLen == 3
\* most words of a generated "w w w ..." page text
MaxWords == 12
\* most pages of a page map
MaxPages == 2
\* most windows the sliding-window loop may emit for one page before the
\* model stops following it (the loop itself has no such limit)
MaxWindows == 14

(***************************************************************************)
(* Python values.                                                          *)
(***************************************************************************)
None == [none |-> TRUE]
Some(v) == [some |-> v]
IsNone(x) == "none" \in DOMAIN x

NL == "\n"
SP == " "
\* characters for which str.isspace() is true, among those of the model
Whitespace == {SP, NL}
\* the characters page texts are drawn from
Alphabet == {"a", SP, NL}

IsSpace(c) == c \in Whitespace

Min(a, b) == IF a < b THEN a ELSE b
Max(a, b) == IF a > b THEN a ELSE b

\* Python's floor division by a positive divisor
FloorDiv(a, b) == IF a >= 0 THEN a \div b ELSE -((-a + b - 1) \div b)

\* s[i:j] for 0 <= i, Python (0-based, end-exclusive, clipped) slice
Slice(s, i, j) ==
  LET lo == Min(Max(i, 0), Len(s))
      hi == Min(Max(j, 0), Len(s))
  IN  IF hi <= lo THEN <<>> ELSE SubSeq(s, lo + 1, hi)

RECURSIVE LStrip(_)
\* str.lstrip()
LStrip(s) == IF s # <<>> /\ IsSpace(Head(s)) THEN LStrip(Tail(s)) ELSE s

RECURSIVE RStrip(_)
\* str.rstrip()
RStrip(s) ==
  IF s # <<>> /\ IsSpace(s[Len(s)]) THEN RStrip(SubSeq(s, 1, Len(s) - 1)) ELSE s

\* str.strip()
Strip(s) == RStrip(LStrip(s))

RECURSIVE SplitWsFrom(_, _, _)
\* str.split() with no argument: the maximal runs of non-whitespace
\* characters; cur is the run being read, acc the runs already closed
SplitWsFrom(s, cur, acc) ==
  IF s = <<>>
  THEN IF cur = <<>> THEN acc ELSE Append(acc, cur)
  ELSE IF IsSpace(Head(s))
       THEN SplitWsFrom(Tail(s), <<>>, IF cur = <<>> THEN acc ELSE Append(acc, cur))
       ELSE SplitWsFrom(Tail(s), Append(cur, Head(s)), acc)

SplitWs(s) == SplitWsFrom(s, <<>>, <<>>)

RECURSIVE JoinWith(_, _)
\* sep.join(parts)
JoinWith(sep, parts) ==
  IF parts = <<>> THEN <<>>
  ELSE IF Len(parts) = 1 THEN parts[1]
  ELSE parts[1] \o sep \o JoinWith(sep, Tail(parts))

\* s.startswith(sep)
StartsWith(s, sep) == Len(s) >= Len(sep) /\ SubSeq(s, 1, Len(sep)) = sep

RECURSIVE SplitOnFrom(_, _, _, _)
\* str.split(sep) for a non-empty sep: leftmost, non-overlapping
\* occurrences of sep cut the string; empty pieces are kept
SplitOnFrom(s, sep, cur, acc) ==
  IF s = <<>> THEN Append(acc, cur)
  ELSE IF StartsWith(s, sep)
       THEN SplitOnFrom(SubSeq(s, Len(sep) + 1, Len(s)), sep, <<>>, Append(acc, cur))
       ELSE SplitOnFrom(Tail(s), sep, Append(cur, Head(s)), acc)

SplitOn(s, sep) == SplitOnFrom(s, sep, <<>>, <<>>)

Digit(d) == <<"0", "1", "2", "3", "4", "5", "6", "7", "8", "9">>[d + 1]

RECURSIVE Str(_)
\* str(n) of an int
Str(n) ==
  IF n < 0 THEN <<"-">> \o Str(-n)
  ELSE IF n < 10 THEN <<Digit(n)>>
  ELSE Str(n \div 10) \o <<Digit(n % 10)>>

(***************************************************************************)
(* The calls the model makes: the arguments of chunk_text.                 *)
(***************************************************************************)
\* every string over Alphabet of length n
RECURSIVE StringsOfLen(_)
StringsOfLen(n) ==
  IF n = 0 THEN {<<>>}
  ELSE {Append(s, c) : s \in StringsOfLen(n - 1), c \in Alphabet}

AllStrings == UNION {StringsOfLen(n) : n \in 0..MaxLen}

Letters ==
  <<"a", "b", "c", "d", "e", "f", "g", "h", "i", "j", "k", "l", "m",
    "n", "o", "p", "q", "r", "s", "t", "u", "v", "w", "x", "y", "z">>

\* a text of n distinct one-letter words separated by single spaces
WordsText(n) ==
  JoinWith(<<SP>>, [k \in 1..n |-> <<Letters[((k - 1) % Len(Letters)) + 1]>>])

WordTexts == {WordsText(n) : n \in 0..MaxWords}

ParaExample ==
  <<"P", "a", "r", "a", SP, "o", "n", "e", ".", NL, NL, "P", "a", "r",
     "a", SP, "t", "w", "o", ".", NL, NL, NL, "P", "a", "r", "a", SP,
     "t", "h", "r", "e", "e", ".">>

\* texts of a page in a one-page page map
PageTexts == AllStrings \cup WordTexts \cup {ParaExample}

\* texts of the pages of a page map of several pages
ShortTexts == {<<>>, <<SP>>, <<"a", SP, "b">>, <<"a", NL, NL, "b">>}

PageEntry(p, t) == [page |-> p, text |-> t]

\* the page numbers of a page map of n pages: 1, 2, ... or 12, 11, ...
PageNumberings(n) == {[i \in 1..n |-> i], [i \in 1..n |-> 13 - i]}

PageMapsOfLen(n) ==
  {[i \in 1..n |-> PageEntry(num[i], txt[i])] :
     num \in PageNumberings(n), txt \in [1..n -> ShortTexts]}

PageMaps ==
  {<<PageEntry(num[1], t)>> : num \in PageNumberings(1), t \in PageTexts}
  \cup UNION {PageMapsOfLen(n) : n \in 1..MaxPages}

Methods == {"by_pages", "fixed_size", "by_paragraphs", "by_sentences", "by_separators"}

\* the values of method the model calls with: the five above and two others
MethodArgs == Methods \cup {"by_magic", ""}

\* chunk_text's defaults for chunk_size and chunk_overlap
DefaultChunkSize == 1000
DefaultChunkOverlap == 200

ChunkSizes == {-6, 0, 5, 6, 12, 30}
ChunkOverlaps == {-6, 0, 5, 6, 12}

SeparatorArgs == {None, Some(<<>>), Some(<< <<NL, NL>>, <<NL>> >>)}

MetadataArgs ==
  { <<>>, [k \in {"filename", "loading_method"} |->
             IF k = "filename" THEN "doc.pdf" ELSE "pymupdf"] }

\* The arguments of one call.  chunk_size and chunk_overlap are read by
\* fixed_size, by_sentences and by_separators only, separators by
\* by_separators only; the other methods are called with the defaults.
Calls ==
  LET PageMapArgs == {None, Some(<<>>)} \cup {Some(pm) : pm \in PageMaps}
      Call(pm, m, cs, co, sep, md) ==
        [page_map |-> pm, method |-> m, chunk_size |-> cs, chunk_overlap |-> co,
         separators |-> sep, metadata |-> md]
  IN  {Call(pm, m, DefaultChunkSize, DefaultChunkOverlap, None, md) :
         pm \in PageMapArgs, m \in MethodArgs \ {"fixed_size", "by_separators"},
         md \in MetadataArgs}
      \cup {Call(pm, "fixed_size", cs, co, None, <<>>) :
              pm \in PageMapArgs, cs \in ChunkSizes, co \in ChunkOverlaps}
      \cup {Call(pm, "by_separators", DefaultChunkSize, DefaultChunkOverlap, sep, <<>>) :
              pm \in PageMapArgs, sep \in SeparatorArgs}

(***************************************************************************)
(* The external splitter, RecursiveCharacterTextSplitter.split_text.  Its  *)
(* code is no part of this repository: a call returns some list of strings *)
(* or raises.                                                              *)
(***************************************************************************)
LibOutputs ==
  {<<>>, <<<<"a">>>>, <<<<SP>>>>, <<<<"a">>, <<"a", SP, "a">>>>}

LibErrors == {"splitter error"}

(***************************************************************************)
(* State.                                                                  *)
(***************************************************************************)
VARIABLES
  page_map, method, chunk_size, chunk_overlap, separators, metadata,
      \* the arguments of the call (text is never read)
  pc,             \* where the call is
  chunks,         \* chunk_text: the running chunk list
  total_pages,    \* chunk_text: len(page_map), None before it is set
  page_idx,       \* pages of page_map the for loop has finished
  page_chunks,    \* the splitter's result for the current page
  words,          \* _fixed_size_chunks: text.split()
  fs_chunks,      \* _fixed_size_chunks: chunks
  start,          \* _fixed_size_chunks: start
  split_out,      \* history: per finished page, the texts its chunks were made from
  document_data,  \* the value returned, None until then
  exc,            \* the exception raised, None if none
  log,            \* what logger.error was called with, in order
  threads         \* concurrent calls on one instance: per caller, the
                  \* arguments, position and locals of its call

args == <<page_map, method, chunk_size, chunk_overlap, separators, metadata>>
locals == <<chunks, total_pages, page_idx, page_chunks, split_out>>
fs_locals == <<words, fs_chunks, start>>
outcome == <<document_data, exc, log>>
vars == <<args, pc, locals, fs_locals, outcome, threads>>

\* Truthy as "x is not None"
TruthyNotNone(x) == ~IsNone(x)

\* bool(x) of an optional list
Truthy(x) == ~IsNone(x) /\ x.some # <<>>

\* d.get(k, default)
Get(d, k, default) == IF k \in DOMAIN d THEN d[k] ELSE default

Init ==
  /\ \E c \in Calls :
       /\ page_map = c.page_map
       /\ method = c.method
       /\ chunk_size = c.chunk_size
       /\ chunk_overlap = c.chunk_overlap
       /\ separators = c.separators
       /\ metadata = c.metadata
  /\ pc = "call"
  /\ chunks = <<>>
  /\ total_pages = None
  /\ page_idx = 0
  /\ page_chunks = <<>>
  /\ words = <<>>
  /\ fs_chunks = <<>>
  /\ start = 0
  /\ split_out = <<>>
  /\ document_data = None
  /\ exc = None
  /\ log = <<>>
  /\ threads = <<>>

(***************************************************************************)
(* The per-page splitters.                                                 *)
(***************************************************************************)
avg_word_len == 5

words_per_chunk == Max(1, FloorDiv(chunk_size, avg_word_len + 1))

\* overlap_words dividing by the word length without the separator
overlap_words_no_separator ==
  IF chunk_overlap <= 0 THEN 0 ELSE Max(0, FloorDiv(chunk_overlap, avg_word_len))

overlap_words ==
  IF chunk_overlap <= 0 THEN 0 ELSE Max(0, FloorDiv(chunk_overlap, avg_word_len + 1))

\* ParagraphChunks without the "if p.strip()" filter
ParagraphChunksKeepEmpty(text) ==
  [i \in DOMAIN SplitOn(text, <<NL, NL>>) |-> Strip(SplitOn(text, <<NL, NL>>)[i])]

\* ParagraphChunks that filters but does not trim
ParagraphChunksNoStrip(text) ==
  SelectSeq(SplitOn(text, <<NL, NL>>), LAMBDA p : Strip(p) # <<>>)

\* _paragraph_chunks(text)
ParagraphChunks(text) ==
  LET stripped == [i \in DOMAIN SplitOn(text, <<NL, NL>>) |->
                     Strip(SplitOn(text, <<NL, NL>>)[i])]
  IN  SelectSeq(stripped, LAMBDA p : p # <<>>)

\* MakeChunk numbering from 0
MakeChunkIdFromZero(cs, page_data, t) ==
  [content |-> t,
   metadata |-> [chunk_id |-> Len(cs),
                 page_number |-> page_data.page,
                 page_range |-> Str(page_data.page),
                 word_count |-> Len(SplitWs(t))]]

\* MakeChunk taking the chunk's position for its page number
MakeChunkPageFromIndex(cs, page_data, t) ==
  [content |-> t,
   metadata |-> [chunk_id |-> Len(cs) + 1,
                 page_number |-> Len(cs) + 1,
                 page_range |-> Str(page_data.page),
                 word_count |-> Len(SplitWs(t))]]

\* MakeChunk counting the words of the page instead of the chunk
MakeChunkPageWordCount(cs, page_data, t) ==
  [content |-> t,
   metadata |-> [chunk_id |-> Len(cs) + 1,
                 page_number |-> page_data.page,
                 page_range |-> Str(page_data.page),
                 word_count |-> Len(SplitWs(page_data.text))]]

\* the chunk appended for text t of page entry page_data when list cs is the
\* running chunk list
MakeChunk(cs, page_data, t) ==
  [content |-> t,
   metadata |-> [chunk_id |-> Len(cs) + 1,
                 page_number |-> page_data.page,
                 page_range |-> Str(page_data.page),
                 word_count |-> Len(SplitWs(t))]]

RECURSIVE AppendChunks(_, _, _)
\* the inner for loop: one chunk appended to cs per text of texts
AppendChunks(cs, page_data, texts) ==
  IF texts = <<>> THEN cs
  ELSE AppendChunks(Append(cs, MakeChunk(cs, page_data, Head(texts))),
                    page_data, Tail(texts))

\* the page entry the for loop is at
PageData == page_map.some[page_idx + 1]

InLoop(m) ==
  /\ pc = "pages"
  /\ method = m
  /\ page_idx < Len(page_map.some)

(***************************************************************************)
(* chunk_text, one action per step.                                        *)
(***************************************************************************)
\* lines 48-49: page_map is None or empty
RaisePageMapRequired ==
  /\ pc = "call"
  /\ ~Truthy(page_map)
  /\ exc' = Some("Page map is required for chunking.")
  /\ pc' = "except"
  /\ UNCHANGED <<threads, args, locals, fs_locals, document_data, log>>

\* lines 48-52
Start ==
  /\ pc = "call"
  /\ Truthy(page_map)
  /\ chunks' = <<>>
  /\ total_pages' = Some(Len(page_map.some))
  /\ pc' = "pages"
  /\ UNCHANGED <<threads, args, page_idx, page_chunks, split_out, fs_locals, outcome>>

\* ByPagesPage trimming the page text
ByPagesPageStripped ==
  /\ InLoop("by_pages")
  /\ chunks' = Append(chunks, MakeChunk(chunks, PageData, Strip(PageData.text)))
  /\ split_out' = Append(split_out, <<PageData.text>>)
  /\ page_idx' = page_idx + 1
  /\ UNCHANGED <<threads, args, pc, total_pages, page_chunks, fs_locals, outcome>>

\* lines 54-66: one iteration of the by_pages loop
ByPagesPage ==
  /\ InLoop("by_pages")
  /\ chunks' = Append(chunks, MakeChunk(chunks, PageData, PageData.text))
  /\ split_out' = Append(split_out, <<PageData.text>>)
  /\ page_idx' = page_idx + 1
  /\ UNCHANGED <<threads, args, pc, total_pages, page_chunks, fs_locals, outcome>>

\* FixedSizeCall with the degenerate case tested as chunk_size < 0
FixedSizeCallNegativeOnly ==
  /\ InLoop("fixed_size")
  /\ IF chunk_size < 0
     THEN /\ page_chunks' = <<PageData.text>>
          /\ pc' = "append"
          /\ UNCHANGED fs_locals
     ELSE /\ words' = SplitWs(PageData.text)
          /\ fs_chunks' = <<>>
          /\ start' = 0
          /\ pc' = "window"
          /\ UNCHANGED page_chunks
  /\ UNCHANGED <<threads, args, chunks, total_pages, page_idx, split_out, outcome>>

\* lines 70-71 and 144-154: _fixed_size_chunks is entered for the page
FixedSizeCall ==
  /\ InLoop("fixed_size")
  /\ IF chunk_size <= 0
     THEN /\ page_chunks' = <<PageData.text>>
          /\ pc' = "append"
          /\ UNCHANGED fs_locals
     ELSE /\ words' = SplitWs(PageData.text)
          /\ fs_chunks' = <<>>
          /\ start' = 0
          /\ pc' = "window"
          /\ UNCHANGED page_chunks
  /\ UNCHANGED <<threads, args, chunks, total_pages, page_idx, split_out, outcome>>

\* lines 155-162: one iteration of the while loop
FixedSizeWindow ==
  /\ pc = "window"
  /\ start < Len(words)
  /\ Len(fs_chunks) < MaxWindows
  /\ LET end == Min(Len(words), start + words_per_chunk)
         chunk_text == JoinWith(<<SP>>, Slice(words, start, end))
         emitted == IF Strip(chunk_text) # <<>>
                    THEN Append(fs_chunks, chunk_text) ELSE fs_chunks
     IN  IF end >= Len(words)
         THEN /\ page_chunks' = emitted
              /\ pc' = "append"
              /\ words' = <<>>
              /\ fs_chunks' = <<>>
              /\ start' = 0
         ELSE /\ fs_chunks' = emitted
              /\ start' = Max(0, end - overlap_words)
              /\ UNCHANGED <<pc, page_chunks, words>>
  /\ UNCHANGED <<threads, args, chunks, total_pages, page_idx, split_out, outcome>>

\* lines 155 and 164: the while condition is false
FixedSizeLoopEnd ==
  /\ pc = "window"
  /\ ~(start < Len(words))
  /\ page_chunks' = fs_chunks
  /\ pc' = "append"
  /\ words' = <<>>
  /\ fs_chunks' = <<>>
  /\ start' = 0
  /\ UNCHANGED <<threads, args, chunks, total_pages, page_idx, split_out, outcome>>

\* lines 86-87, 99-100 and 176-177
ParagraphCall ==
  /\ InLoop("by_paragraphs")
  /\ page_chunks' = ParagraphChunks(PageData.text)
  /\ pc' = "append"
  /\ UNCHANGED <<threads, args, chunks, total_pages, page_idx, split_out, fs_locals, outcome>>

\* lines 88-91, 99-100 and 189-195: split_text returns
SentenceCall ==
  /\ InLoop("by_sentences")
  /\ \E texts \in LibOutputs : page_chunks' = texts
  /\ pc' = "append"
  /\ UNCHANGED <<threads, args, chunks, total_pages, page_idx, split_out, fs_locals, outcome>>

\* lines 92-100 and 225-233: split_text returns
SeparatorCall ==
  /\ InLoop("by_separators")
  /\ \E texts \in LibOutputs : page_chunks' = texts
  /\ pc' = "append"
  /\ UNCHANGED <<threads, args, chunks, total_pages, page_idx, split_out, fs_locals, outcome>>

\* lines 189-194 and 227-232: the splitter's constructor or split_text raises
SplitterRaises ==
  /\ pc = "pages"
  /\ method \in {"by_sentences", "by_separators"}
  /\ page_idx < Len(page_map.some)
  /\ \E e \in LibErrors : exc' = Some(e)
  /\ pc' = "except"
  /\ UNCHANGED <<threads, args, locals, fs_locals, document_data, log>>

\* lines 72-82 and 101-111: the page's chunks are appended
AppendPageChunks ==
  /\ pc = "append"
  /\ chunks' = AppendChunks(chunks, PageData, page_chunks)
  /\ split_out' = Append(split_out, page_chunks)
  /\ page_chunks' = <<>>
  /\ page_idx' = page_idx + 1
  /\ pc' = "pages"
  /\ UNCHANGED <<threads, args, total_pages, fs_locals, outcome>>

\* RaiseUnsupported returning an empty record instead of raising
UnsupportedReturnsEmpty ==
  /\ pc = "pages"
  /\ method \notin Methods
  /\ document_data' =
       Some([filename |-> Get(metadata, "filename", ""),
             total_chunks |-> 0,
             total_pages |-> total_pages.some,
             loading_method |-> Get(metadata, "loading_method", ""),
             chunking_method |-> method,
             chunks |-> <<>>])
  /\ pc' = "returned"
  /\ UNCHANGED <<threads, args, locals, fs_locals, exc, log>>

\* lines 112-113
RaiseUnsupported ==
  /\ pc = "pages"
  /\ method \notin Methods
  /\ exc' = Some("Unsupported chunking method: " \o method)
  /\ pc' = "except"
  /\ UNCHANGED <<threads, args, locals, fs_locals, document_data, log>>

\* Return counting the chunks as the pages
ReturnPagesFromChunks ==
  /\ pc = "pages"
  /\ method \in Methods
  /\ page_idx = Len(page_map.some)
  /\ document_data' =
       Some([filename |-> Get(metadata, "filename", ""),
             total_chunks |-> Len(chunks),
             total_pages |-> Len(chunks),
             loading_method |-> Get(metadata, "loading_method", ""),
             chunking_method |-> method,
             chunks |-> chunks])
  /\ pc' = "returned"
  /\ UNCHANGED <<threads, args, locals, fs_locals, exc, log>>

\* lines 116-126 (timestamp, the clock's reading, is left out)
Return ==
  /\ pc = "pages"
  /\ method \in Methods
  /\ page_idx = Len(page_map.some)
  /\ document_data' =
       Some([filename |-> Get(metadata, "filename", ""),
             total_chunks |-> Len(chunks),
             total_pages |-> total_pages.some,
             loading_method |-> Get(metadata, "loading_method", ""),
             chunking_method |-> method,
             chunks |-> chunks])
  /\ pc' = "returned"
  /\ UNCHANGED <<threads, args, locals, fs_locals, exc, log>>

\* lines 128-130
ExceptHandler ==
  /\ pc = "except"
  /\ log' = Append(log, "Error in chunk_text: " \o exc.some)
  /\ pc' = "raised"
  /\ UNCHANGED <<threads, args, locals, fs_locals, document_data, exc>>

Next ==
  \/ RaisePageMapRequired
  \/ Start
  \/ ByPagesPage
  \/ FixedSizeCall
  \/ FixedSizeWindow
  \/ FixedSizeLoopEnd
  \/ ParagraphCall
  \/ SentenceCall
  \/ SeparatorCall
  \/ SplitterRaises
  \/ AppendPageChunks
  \/ RaiseUnsupported
  \/ Return
  \/ ExceptHandler

Spec == Init /\ [][Next]_vars

(***************************************************************************)
(* Vocabulary of the properties.                                           *)
(***************************************************************************)
Returned == pc = "returned"
Doc == document_data.some
Pages == page_map.some

\* page_map is None or the empty list
NoPageMap == IsNone(page_map) \/ Len(page_map.some) = 0

\* the number of maximal runs of non-whitespace characters of s
CountTokens(s) ==
  Cardinality({i \in 1..Len(s) : ~IsSpace(s[i]) /\ (i = 1 \/ IsSpace(s[i - 1]))})

IsBlank(s) == \A i \in 1..Len(s) : IsSpace(s[i])

\* sub occurs in full as a contiguous run
IsRun(sub, full) ==
  \E i \in 0..(Len(full) - Len(sub)) : SubSeq(full, i + 1, i + Len(sub)) = sub

RECURSIVE DecimalValue(_)
\* the number a string of decimal digits denotes
DecimalValue(s) ==
  IF s = <<>> THEN 0
  ELSE 10 * DecimalValue(SubSeq(s, 1, Len(s) - 1))
       + (CHOOSE d \in 0..9 : Digit(d) = s[Len(s)])

\* s is n written in decimal, without sign or leading zero (n >= 1)
IsDecimalOf(s, n) ==
  /\ s # <<>>
  /\ \A i \in 1..Len(s) : \E d \in 0..9 : Digit(d) = s[i]
  /\ s[1] # "0"
  /\ DecimalValue(s) = n

RECURSIVE Origins(_)
\* per text of the history split_out, in order: the index of its page and the text
Origins(out) ==
  IF out = <<>> THEN <<>>
  ELSE Origins(SubSeq(out, 1, Len(out) - 1))
       \o [j \in 1..Len(out[Len(out)]) |->
             [idx |-> Len(out), text |-> out[Len(out)][j]]]

(***************************************************************************)
(* C1.  A call that returns numbers its chunks 1, 2, ..., total_chunks in  *)
(* output order, without gap or repeat, whatever the method and however    *)
(* many chunks each page yields.                                           *)
(***************************************************************************)
ChunkIdsContiguous ==
  Returned =>
    /\ Doc.total_chunks = Len(Doc.chunks)
    /\ \A k \in 1..Len(Doc.chunks) : Doc.chunks[k].metadata.chunk_id = k

\* returned from a page map where one page gave no chunk and another several
ChunkIdsContiguousWitness ==
  /\ Returned
  /\ Len(Pages) >= 2
  /\ \E i \in 1..Len(split_out) : split_out[i] = <<>>
  /\ \E i \in 1..Len(split_out) : Len(split_out[i]) >= 2
  /\ Len(Doc.chunks) >= 2

(***************************************************************************)
(* C2 as stated.  No chunk of a call that returns is empty after trimming  *)
(* whitespace, whatever the method.                                        *)
(***************************************************************************)
NoBlankChunkAnyMethod ==
  Returned => \A k \in 1..Len(Doc.chunks) : Strip(Doc.chunks[k].content) # <<>>

(***************************************************************************)
(* C2 as amended.  For fixed_size with chunk_size > 0 and for              *)
(* by_paragraphs, no chunk of a call that returns is empty after trimming  *)
(* whitespace, and a page with no non-whitespace character yields no       *)
(* chunk.  by_pages, and fixed_size with chunk_size <= 0, keep a blank     *)
(* page as a chunk.                                                        *)
(***************************************************************************)
NoBlankChunkWhenSplit ==
  Returned =>
    /\ (method = "by_paragraphs" \/ (method = "fixed_size" /\ chunk_size > 0)) =>
         /\ \A k \in 1..Len(Doc.chunks) : ~IsBlank(Doc.chunks[k].content)
         /\ \A i \in 1..Len(Pages) : IsBlank(Pages[i].text) => split_out[i] = <<>>
    /\ (method = "by_pages" \/ (method = "fixed_size" /\ chunk_size <= 0)) =>
         \A i \in 1..Len(Pages) : split_out[i] = <<Pages[i].text>>

\* a splitting call returned chunks after dropping a whitespace-only page
NoBlankChunkWhenSplitWitness ==
  /\ Returned
  /\ method = "by_paragraphs" \/ (method = "fixed_size" /\ chunk_size > 0)
  /\ \E i \in 1..Len(Pages) : Pages[i].text = <<SP>> /\ split_out[i] = <<>>
  /\ Len(Doc.chunks) >= 1

(***************************************************************************)
(* C3.  by_pages returns one chunk per page, in page order: its content is *)
(* the page's text unchanged, its page_number the page's number and its    *)
(* page_range that number in decimal.                                      *)
(***************************************************************************)
PageFidelity ==
  (Returned /\ method = "by_pages") =>
    /\ Doc.total_chunks = Doc.total_pages
    /\ Doc.total_pages = Len(Pages)
    /\ Len(Doc.chunks) = Len(Pages)
    /\ \A i \in 1..Len(Doc.chunks) :
         /\ Doc.chunks[i].content = Pages[i].text
         /\ Doc.chunks[i].metadata.page_number = Pages[i].page
         /\ IsDecimalOf(Doc.chunks[i].metadata.page_range, Pages[i].page)

\* by_pages returned two pages, one of them with whitespace around its text
PageFidelityWitness ==
  /\ Returned
  /\ method = "by_pages"
  /\ Len(Doc.chunks) = 2
  /\ \E i \in 1..2 : Doc.chunks[i].content = <<SP>>
  /\ \E i \in 1..2 : Doc.chunks[i].metadata.page_range = <<"1", "2">>

(***************************************************************************)
(* C4.  The chunks of a call that returns are, in order, the texts the     *)
(* pages yielded, page after page and within a page in the splitter's      *)
(* order; each carries the page number of the one page it came from, and   *)
(* (for the splitters of this file) its words are a run of that page's     *)
(* words.                                                                  *)
(***************************************************************************)
PageProvenance ==
  Returned =>
    LET org == Origins(split_out)
    IN  /\ Len(split_out) = Len(Pages)
        /\ Len(Doc.chunks) = Len(org)
        /\ \A k \in 1..Len(org) :
             /\ Doc.chunks[k].content = org[k].text
             /\ Doc.chunks[k].metadata.page_number = Pages[org[k].idx].page
             /\ k > 1 => org[k - 1].idx <= org[k].idx
             /\ method \in {"by_pages", "fixed_size", "by_paragraphs"} =>
                  IsRun(SplitWs(Doc.chunks[k].content), SplitWs(Pages[org[k].idx].text))

\* returned with chunks from two pages, the second page's chunk last
PageProvenanceWitness ==
  /\ Returned
  /\ Len(Pages) = 2
  /\ Len(Doc.chunks) >= 3
  /\ Doc.chunks[1].metadata.page_number = Pages[1].page
  /\ Doc.chunks[Len(Doc.chunks)].metadata.page_number = Pages[2].page
  /\ Pages[1].page # Pages[2].page

(***************************************************************************)
(* C5.  With page_map None or empty the call never gets past the check:    *)
(* whatever the method, the only exception it raises is "Page map is       *)
(* required for chunking." and it returns no document record.              *)
(***************************************************************************)
PageMapRequired ==
  NoPageMap =>
    /\ pc \in {"call", "except", "raised"}
    /\ document_data = None
    /\ chunks = <<>>
    /\ pc # "call" => exc = Some("Page map is required for chunking.")

\* the call with an empty list has raised
PageMapRequiredWitness ==
  /\ pc = "raised"
  /\ page_map = Some(<<>>)
  /\ method = "by_pages"
  /\ exc = Some("Page map is required for chunking.")

(***************************************************************************)
(* C6.  With a non-empty page map and a method that is none of the five,   *)
(* the call raises "Unsupported chunking method: <method>": no chunk is    *)
(* made, no document record is returned, and the exception the caller gets *)
(* is the one raised, logged once on the way.                              *)
(***************************************************************************)
UnsupportedMethod ==
  (~NoPageMap /\ method \notin Methods) =>
    /\ pc \in {"call", "pages", "except", "raised"}
    /\ document_data = None
    /\ chunks = <<>>
    /\ page_idx = 0
    /\ pc \in {"except", "raised"} =>
         exc = Some("Unsupported chunking method: " \o method)
    /\ pc = "raised" =>
         log = <<"Error in chunk_text: Unsupported chunking method: " \o method>>

\* the call with method by_magic has raised
UnsupportedMethodWitness ==
  /\ pc = "raised"
  /\ method = "by_magic"
  /\ ~NoPageMap
  /\ Len(Pages) = 2
  /\ exc = Some("Unsupported chunking method: by_magic")

(***************************************************************************)
(* C7.  For fixed_size with chunk_size > 0, with words_per_chunk =         *)
(* max(1, chunk_size // 6), overlap_words = 0 if chunk_overlap <= 0 else   *)
(* chunk_overlap // 6 and step = words_per_chunk - overlap_words: the      *)
(* chunks of a page are the windows words[j*step : j*step +                *)
(* words_per_chunk], j = 0, 1, ..., joined by single spaces, the last      *)
(* chunk being the first window whose end reaches the end of the words;    *)
(* 12 words, chunk_size 30 and chunk_overlap 6 give the three windows that *)
(* start at words 0, 4 and 8.                                              *)
(***************************************************************************)
ClaimedWordsPerChunk == Max(1, chunk_size \div 6)
ClaimedOverlapWords == IF chunk_overlap <= 0 THEN 0 ELSE chunk_overlap \div 6
ClaimedStep == ClaimedWordsPerChunk - ClaimedOverlapWords
ClaimedWindowStart(j) == j * ClaimedStep
ClaimedWindowEnd(j) == ClaimedWindowStart(j) + ClaimedWordsPerChunk
ClaimedWindow(ws, j) ==
  JoinWith(<<SP>>, Slice(ws, ClaimedWindowStart(j), ClaimedWindowEnd(j)))

FixedSizeWindows ==
  (method = "fixed_size" /\ chunk_size > 0) =>
    /\ pc = "window" =>
         /\ start = ClaimedWindowStart(Len(fs_chunks))
         /\ \A j \in 1..Len(fs_chunks) :
              /\ fs_chunks[j] = ClaimedWindow(words, j - 1)
              /\ ClaimedWindowEnd(j - 1) < Len(words)
    /\ pc = "append" =>
         LET ws == SplitWs(PageData.text)
             n == Len(page_chunks)
         IN  /\ n = 0 <=> ws = <<>>
             /\ \A j \in 1..n :
                  /\ page_chunks[j] = ClaimedWindow(ws, j - 1)
                  /\ ClaimedWindowEnd(j - 1) >= Len(ws) <=> j = n
    /\ (pc = "append" /\ chunk_size = 30 /\ chunk_overlap = 6
          /\ PageData.text = WordsText(12)) =>
         page_chunks = <<JoinWith(<<SP>>, SubSeq(SplitWs(WordsText(12)), 1, 5)),
                         JoinWith(<<SP>>, SubSeq(SplitWs(WordsText(12)), 5, 9)),
                         JoinWith(<<SP>>, SubSeq(SplitWs(WordsText(12)), 9, 12))>>

(***************************************************************************)
(* C8.  For fixed_size with chunk_size <= 0, whatever chunk_overlap is,    *)
(* every page yields exactly one chunk, the page's whole text unchanged    *)
(* (chunk_size 0 on "a b c" gives the one chunk "a b c"), and the window   *)
(* loop is never entered.                                                  *)
(***************************************************************************)
DegenerateFixedSize ==
  (method = "fixed_size" /\ chunk_size <= 0) =>
    /\ pc # "window"
    /\ pc = "append" => page_chunks = <<PageData.text>>
    /\ Returned =>
         /\ Len(Doc.chunks) = Len(Pages)
         /\ \A i \in 1..Len(Doc.chunks) :
              /\ Doc.chunks[i].content = Pages[i].text
              /\ Doc.chunks[i].metadata.page_number = Pages[i].page

\* chunk_size 0 on "a b c" returned the one chunk "a b c"
DegenerateFixedSizeWitness ==
  /\ Returned
  /\ method = "fixed_size"
  /\ chunk_size = 0
  /\ chunk_overlap = 12
  /\ Len(Pages) = 1
  /\ Pages[1].text = <<"a", SP, "b", SP, "c">>
  /\ Len(Doc.chunks) = 1
  /\ Doc.chunks[1].content = <<"a", SP, "b", SP, "c">>

(***************************************************************************)
(* C9.  For by_paragraphs the chunks of a page are the pieces between      *)
(* occurrences of two consecutive newlines, trimmed, the empty ones left   *)
(* out, in order: every chunk is non-empty, has no whitespace at either    *)
(* end and no two consecutive newlines inside, and the page text is the    *)
(* chunks in order with whitespace between them, each gap between two      *)
(* chunks holding two consecutive newlines.  "Para one.\n\nPara            *)
(* two.\n\n\nPara three." gives "Para one.", "Para two.", "Para three.".   *)
(***************************************************************************)
RECURSIVE TextIsChunksAndGaps(_, _, _)
\* rest is whitespace, then the first chunk of cs, and so on to its end;
\* unless first, the whitespace before a chunk holds two consecutive newlines
TextIsChunksAndGaps(rest, cs, first) ==
  LET after == LStrip(rest)
      gap == SubSeq(rest, 1, Len(rest) - Len(after))
  IN  IF cs = <<>> THEN after = <<>>
      ELSE /\ first \/ IsRun(<<NL, NL>>, gap)
           /\ StartsWith(after, Head(cs))
           /\ TextIsChunksAndGaps(SubSeq(after, Len(Head(cs)) + 1, Len(after)),
                                  Tail(cs), FALSE)

ParagraphSplit ==
  (pc = "append" /\ method = "by_paragraphs") =>
    /\ \A j \in 1..Len(page_chunks) :
         /\ page_chunks[j] # <<>>
         /\ ~IsSpace(page_chunks[j][1])
         /\ ~IsSpace(page_chunks[j][Len(page_chunks[j])])
         /\ ~IsRun(<<NL, NL>>, page_chunks[j])
    /\ TextIsChunksAndGaps(PageData.text, page_chunks, TRUE)
    /\ PageData.text = ParaExample =>
         page_chunks = <<<<"P", "a", "r", "a", SP, "o", "n", "e", ".">>,
                         <<"P", "a", "r", "a", SP, "t", "w", "o", ".">>,
                         <<"P", "a", "r", "a", SP, "t", "h", "r", "e", "e", ".">>>>

\* the example page has been split into its three paragraphs
ParagraphSplitWitness ==
  /\ pc = "append"
  /\ method = "by_paragraphs"
  /\ PageData.text = ParaExample
  /\ Len(page_chunks) = 3

(***************************************************************************)
(* C10.  In a call that returns, every chunk's word_count is the number of *)
(* whitespace-separated tokens of that chunk's own content.                *)
(***************************************************************************)
WordCountOfContent ==
  Returned =>
    \A k \in 1..Len(Doc.chunks) :
      Doc.chunks[k].metadata.word_count = CountTokens(Doc.chunks[k].content)

\* a page of at least five words returned as several chunks, one of two words
WordCountOfContentWitness ==
  /\ Returned
  /\ Len(Pages) = 1
  /\ CountTokens(Pages[1].text) >= 5
  /\ Len(Doc.chunks) >= 2
  /\ \E k \in 1..Len(Doc.chunks) : Doc.chunks[k].metadata.word_count = 2

(***************************************************************************)
(* C11.  The record a call returns has total_chunks equal to the number of *)
(* its chunks and total_pages equal to the number of pages of the page     *)
(* map, also when pages yield no chunk or several.                         *)
(***************************************************************************)
RecordCounts ==
  Returned =>
    /\ Doc.total_chunks = Len(Doc.chunks)
    /\ Doc.total_pages = Len(Pages)

\* returned from two pages, one giving no chunk and the other several
RecordCountsWitness ==
  /\ Returned
  /\ Len(Pages) = 2
  /\ split_out[1] = <<>>
  /\ Len(split_out[2]) = 2
  /\ Doc.total_chunks = 2
  /\ Doc.total_pages = 2
  /\ Doc.chunks[1].metadata.page_number = Pages[2].page

(***************************************************************************)
(* C15.  For fixed_size with chunk_size > 0 and any chunk_overlap, the     *)
(* window loop makes progress: from one iteration to the next the window   *)
(* start strictly increases.                                               *)
(***************************************************************************)
WindowStartIncreases ==
  [][(pc = "window" /\ pc' = "window") => start' > start]_vars

(***************************************************************************)
(* C16.  For fixed_size with chunk_size > 0 and overlap_words <            *)
(* words_per_chunk, the chunks of a page cover its words: each chunk is a  *)
(* run of 1 to words_per_chunk of the page's words, the first starts at    *)
(* the first word, each next one starts overlap_words words before the end *)
(* of the one before and strictly after its start, the last ends at the    *)
(* last word; a page without words yields no chunk.                        *)
(***************************************************************************)
\* the number of words of chunk j of cs
ChunkWords(cs, j) == CountTokens(cs[j])

RECURSIVE ChunkStart(_, _)
\* where chunk j of cs starts among the page's words (0-based) when each
\* chunk starts ClaimedOverlapWords words before the end of the one before
ChunkStart(cs, j) ==
  IF j = 1 THEN 0
  ELSE ChunkStart(cs, j - 1) + ChunkWords(cs, j - 1) - ClaimedOverlapWords

FixedSizeCoverage ==
  (pc = "append" /\ method = "fixed_size" /\ chunk_size > 0
     /\ ClaimedOverlapWords < ClaimedWordsPerChunk) =>
    LET ws == SplitWs(PageData.text)
        n == Len(page_chunks)
    IN  /\ n = 0 <=> ws = <<>>
        /\ \A j \in 1..n :
             /\ ChunkWords(page_chunks, j) >= 1
             /\ ChunkWords(page_chunks, j) <= ClaimedWordsPerChunk
             /\ ChunkStart(page_chunks, j) >= 0
             /\ ChunkStart(page_chunks, j) + ChunkWords(page_chunks, j) <= Len(ws)
             /\ page_chunks[j] =
                  JoinWith(<<SP>>, SubSeq(ws, ChunkStart(page_chunks, j) + 1,
                                          ChunkStart(page_chunks, j)
                                            + ChunkWords(page_chunks, j)))
             /\ j < n => /\ ChunkStart(page_chunks, j + 1) > ChunkStart(page_chunks, j)
                         /\ ChunkStart(page_chunks, j) + ChunkWords(page_chunks, j)
                              < Len(ws)
             /\ j = n => ChunkStart(page_chunks, j) + ChunkWords(page_chunks, j)
                           = Len(ws)

\* twelve words split into windows of five that overlap by one
FixedSizeCoverageWitness ==
  /\ pc = "append"
  /\ method = "fixed_size"
  /\ chunk_size = 30
  /\ chunk_overlap = 6
  /\ PageData.text = WordsText(12)
  /\ Len(page_chunks) = 3
  /\ ChunkStart(page_chunks, 3) = 8

(***************************************************************************)
(* Concurrent calls of chunk_text on one ChunkingService instance.  The    *)
(* class has no attributes: each call has its own arguments and locals,    *)
(* held in threads[c]; the module's logger is the one object the calls     *)
(* share.  One action per step of a call, as above.                        *)
(***************************************************************************)
Callers == {1, 2}

ConcPageMaps ==
  { <<PageEntry(1, <<"a", SP, "b">>)>>,
    <<PageEntry(1, <<SP>>), PageEntry(2, <<"a", NL, NL, "b">>)>> }

\* the arguments of the concurrent calls
ConcCalls ==
  LET Call(pm, m, cs) ==
        [page_map |-> pm, method |-> m, chunk_size |-> cs, chunk_overlap |-> 0,
         separators |-> None,
         metadata |-> [k \in {"filename"} |-> "doc.pdf"]]
  IN  {Call(Some(pm), m, 6) : pm \in ConcPageMaps, m \in Methods \cup {"by_magic"}}
      \cup {Call(Some(pm), "fixed_size", 0) : pm \in ConcPageMaps}
      \cup {Call(None, "by_pages", 6)}

\* a call with arguments a, before its first step
InitialCall(a) ==
  [page_map |-> a.page_map, method |-> a.method, chunk_size |-> a.chunk_size,
   chunk_overlap |-> a.chunk_overlap, separators |-> a.separators,
   metadata |-> a.metadata,
   pc |-> "call", chunks |-> <<>>, total_pages |-> None, page_idx |-> 0,
   page_chunks |-> <<>>, words |-> <<>>, fs_chunks |-> <<>>, start |-> 0,
   split_out |-> <<>>, document_data |-> None, exc |-> None]

InitCalls ==
  /\ threads \in [Callers -> {InitialCall(a) : a \in ConcCalls}]
  /\ log = <<>>
  /\ page_map = None
  /\ method = ""
  /\ chunk_size = DefaultChunkSize
  /\ chunk_overlap = DefaultChunkOverlap
  /\ separators = None
  /\ metadata = <<>>
  /\ pc = "none"
  /\ chunks = <<>>
  /\ total_pages = None
  /\ page_idx = 0
  /\ page_chunks = <<>>
  /\ words = <<>>
  /\ fs_chunks = <<>>
  /\ start = 0
  /\ split_out = <<>>
  /\ document_data = None
  /\ exc = None

\* what a step of a concurrent call leaves alone, the log apart
single == <<args, pc, locals, fs_locals, document_data, exc>>

\* the page entry call c's for loop is at
CallPageData(c) == threads[c].page_map.some[threads[c].page_idx + 1]

CallInLoop(c, m) ==
  /\ threads[c].pc = "pages"
  /\ threads[c].method = m
  /\ threads[c].page_idx < Len(threads[c].page_map.some)

\* words_per_chunk and overlap_words of call c
CallWordsPerChunk(c) == Max(1, FloorDiv(threads[c].chunk_size, avg_word_len + 1))

CallOverlapWords(c) ==
  IF threads[c].chunk_overlap <= 0 THEN 0
  ELSE Max(0, FloorDiv(threads[c].chunk_overlap, avg_word_len + 1))

\* lines 48-49
CallRaisePageMapRequired(c) ==
  /\ threads[c].pc = "call"
  /\ ~Truthy(threads[c].page_map)
  /\ threads' = [threads EXCEPT ![c].exc = Some("Page map is required for chunking."),
                                ![c].pc = "except"]
  /\ UNCHANGED <<single, log>>

\* lines 48-52
CallStart(c) ==
  /\ threads[c].pc = "call"
  /\ Truthy(threads[c].page_map)
  /\ threads' = [threads EXCEPT ![c].chunks = <<>>,
                                ![c].total_pages = Some(Len(threads[c].page_map.some)),
                                ![c].pc = "pages"]
  /\ UNCHANGED <<single, log>>

\* lines 54-66
CallByPagesPage(c) ==
  /\ CallInLoop(c, "by_pages")
  /\ threads' =
       [threads EXCEPT
          ![c].chunks = Append(@, MakeChunk(@, CallPageData(c), CallPageData(c).text)),
          ![c].split_out = Append(@, <<CallPageData(c).text>>),
          ![c].page_idx = @ + 1]
  /\ UNCHANGED <<single, log>>

\* lines 70-71 and 144-154
CallFixedSizeCall(c) ==
  /\ CallInLoop(c, "fixed_size")
  /\ IF threads[c].chunk_size <= 0
     THEN threads' = [threads EXCEPT ![c].page_chunks = <<CallPageData(c).text>>,
                                     ![c].pc = "append"]
     ELSE threads' = [threads EXCEPT ![c].words = SplitWs(CallPageData(c).text),
                                     ![c].fs_chunks = <<>>,
                                     ![c].start = 0,
                                     ![c].pc = "window"]
  /\ UNCHANGED <<single, log>>

\* lines 155-162
CallFixedSizeWindow(c) ==
  /\ threads[c].pc = "window"
  /\ threads[c].start < Len(threads[c].words)
  /\ Len(threads[c].fs_chunks) < MaxWindows
  /\ LET t == threads[c]
         end == Min(Len(t.words), t.start + CallWordsPerChunk(c))
         chunk_text == JoinWith(<<SP>>, Slice(t.words, t.start, end))
         emitted == IF Strip(chunk_text) # <<>>
                    THEN Append(t.fs_chunks, chunk_text) ELSE t.fs_chunks
     IN  IF end >= Len(t.words)
         THEN threads' = [threads EXCEPT ![c].page_chunks = emitted,
                                         ![c].pc = "append",
                                         ![c].words = <<>>,
                                         ![c].fs_chunks = <<>>,
                                         ![c].start = 0]
         ELSE threads' = [threads EXCEPT ![c].fs_chunks = emitted,
                                         ![c].start = Max(0, end - CallOverlapWords(c))]
  /\ UNCHANGED <<single, log>>

\* lines 155 and 164
CallFixedSizeLoopEnd(c) ==
  /\ threads[c].pc = "window"
  /\ ~(threads[c].start < Len(threads[c].words))
  /\ threads' = [threads EXCEPT ![c].page_chunks = threads[c].fs_chunks,
                                ![c].pc = "append",
                                ![c].words = <<>>,
                                ![c].fs_chunks = <<>>,
                                ![c].start = 0]
  /\ UNCHANGED <<single, log>>

\* lines 86-87, 99-100 and 176-177
CallParagraphCall(c) ==
  /\ CallInLoop(c, "by_paragraphs")
  /\ threads' = [threads EXCEPT ![c].page_chunks = ParagraphChunks(CallPageData(c).text),
                                ![c].pc = "append"]
  /\ UNCHANGED <<single, log>>

\* lines 88-100, 189-195 and 225-233: the call's own splitter returns
CallSplitterCall(c) ==
  /\ threads[c].pc = "pages"
  /\ threads[c].method \in {"by_sentences", "by_separators"}
  /\ threads[c].page_idx < Len(threads[c].page_map.some)
  /\ \E texts \in LibOutputs :
       threads' = [threads EXCEPT ![c].page_chunks = texts, ![c].pc = "append"]
  /\ UNCHANGED <<single, log>>

\* lines 189-194 and 227-232: the call's own splitter raises
CallSplitterRaises(c) ==
  /\ threads[c].pc = "pages"
  /\ threads[c].method \in {"by_sentences", "by_separators"}
  /\ threads[c].page_idx < Len(threads[c].page_map.some)
  /\ \E e \in LibErrors :
       threads' = [threads EXCEPT ![c].exc = Some(e), ![c].pc = "except"]
  /\ UNCHANGED <<single, log>>

\* every chunk made so far by any caller, as one list
AllCallersChunks == threads[1].chunks \o threads[2].chunks

\* CallAppendPageChunks with chunks an attribute of the instance: the page's
\* chunks are appended to the one list all callers append to
CallAppendToSharedList(c) ==
  /\ threads[c].pc = "append"
  /\ threads' =
       [threads EXCEPT
          ![c].chunks = AppendChunks(AllCallersChunks, CallPageData(c),
                                     threads[c].page_chunks),
          ![c].split_out = Append(@, threads[c].page_chunks),
          ![c].page_chunks = <<>>,
          ![c].page_idx = @ + 1,
          ![c].pc = "pages"]
  /\ UNCHANGED <<single, log>>

\* lines 72-82 and 101-111
CallAppendPageChunks(c) ==
  /\ threads[c].pc = "append"
  /\ threads' =
       [threads EXCEPT
          ![c].chunks = AppendChunks(@, CallPageData(c), threads[c].page_chunks),
          ![c].split_out = Append(@, threads[c].page_chunks),
          ![c].page_chunks = <<>>,
          ![c].page_idx = @ + 1,
          ![c].pc = "pages"]
  /\ UNCHANGED <<single, log>>

\* lines 112-113
CallRaiseUnsupported(c) ==
  /\ threads[c].pc = "pages"
  /\ threads[c].method \notin Methods
  /\ threads' =
       [threads EXCEPT
          ![c].exc = Some("Unsupported chunking method: " \o threads[c].method),
          ![c].pc = "except"]
  /\ UNCHANGED <<single, log>>

\* lines 116-126
CallReturn(c) ==
  /\ threads[c].pc = "pages"
  /\ threads[c].method \in Methods
  /\ threads[c].page_idx = Len(threads[c].page_map.some)
  /\ threads' =
       [threads EXCEPT
          ![c].document_data =
             Some([filename |-> Get(threads[c].metadata, "filename", ""),
                   total_chunks |-> Len(threads[c].chunks),
                   total_pages |-> threads[c].total_pages.some,
                   loading_method |-> Get(threads[c].metadata, "loading_method", ""),
                   chunking_method |-> threads[c].method,
                   chunks |-> threads[c].chunks]),
          ![c].pc = "returned"]
  /\ UNCHANGED <<single, log>>

\* lines 128-130: the shared logger gets the message
CallExceptHandler(c) ==
  /\ threads[c].pc = "except"
  /\ log' = Append(log, "Error in chunk_text: " \o threads[c].exc.some)
  /\ threads' = [threads EXCEPT ![c].pc = "raised"]
  /\ UNCHANGED single

NextCalls ==
  \E c \in Callers :
    \/ CallRaisePageMapRequired(c)
    \/ CallStart(c)
    \/ CallByPagesPage(c)
    \/ CallFixedSizeCall(c)
    \/ CallFixedSizeWindow(c)
    \/ CallFixedSizeLoopEnd(c)
    \/ CallParagraphCall(c)
    \/ CallSplitterCall(c)
    \/ CallSplitterRaises(c)
    \/ CallAppendPageChunks(c)
    \/ CallRaiseUnsupported(c)
    \/ CallReturn(c)
    \/ CallExceptHandler(c)

SpecCalls == InitCalls /\ [][NextCalls]_vars

(***************************************************************************)
(* C14.  chunk_text holds no state across calls.  Whatever the             *)
(* interleaving of the steps of the concurrent calls: a call that returns  *)
(* returns the record it returns when run alone (for by_sentences and      *)
(* by_separators: the record made from what its own splitter returned),    *)
(* with chunk ids 1, 2, ... of its own chunks only; a call that raises     *)
(* raises its own error and returns nothing; and no step of any call       *)
(* changes the page_map or the metadata a caller passed.                   *)
(***************************************************************************)
RECURSIVE WindowsAlone(_, _, _, _)
\* the windows of wpc words of ws from word st on, each starting ow words
\* before the end of the one before
WindowsAlone(ws, st, wpc, ow) ==
  IF st >= Len(ws) THEN <<>>
  ELSE IF st + wpc >= Len(ws)
       THEN <<JoinWith(<<SP>>, SubSeq(ws, st + 1, Len(ws)))>>
       ELSE <<JoinWith(<<SP>>, SubSeq(ws, st + 1, st + wpc))>>
            \o WindowsAlone(ws, st + wpc - ow, wpc, ow)

\* per page, the texts of the chunks a call with the arguments of t yields
\* when run alone
SplitAlone(t) ==
  [i \in 1..Len(t.page_map.some) |->
     LET text == t.page_map.some[i].text
     IN  CASE t.method = "by_pages" -> <<text>>
           [] t.method = "fixed_size" ->
                IF t.chunk_size <= 0 THEN <<text>>
                ELSE WindowsAlone(SplitWs(text), 0, Max(1, t.chunk_size \div 6),
                                  IF t.chunk_overlap <= 0 THEN 0
                                  ELSE t.chunk_overlap \div 6)
           [] t.method = "by_paragraphs" -> ParagraphChunks(text)
           [] OTHER -> t.split_out[i]]

\* the record a call with the arguments of t returns when run alone
RecordAlone(t) ==
  LET org == Origins(SplitAlone(t))
  IN  [filename |-> IF "filename" \in DOMAIN t.metadata
                    THEN t.metadata["filename"] ELSE "",
       total_chunks |-> Len(org),
       total_pages |-> Len(t.page_map.some),
       loading_method |-> IF "loading_method" \in DOMAIN t.metadata
                          THEN t.metadata["loading_method"] ELSE "",
       chunking_method |-> t.method,
       chunks |-> [k \in 1..Len(org) |->
                     [content |-> org[k].text,
                      metadata |->
                        [chunk_id |-> k,
                         page_number |-> t.page_map.some[org[k].idx].page,
                         page_range |-> Str(t.page_map.some[org[k].idx].page),
                         word_count |-> CountTokens(org[k].text)]]]]

\* the error a call with the arguments of t raises when run alone
ErrorsAlone(t) ==
  IF IsNone(t.page_map) \/ Len(t.page_map.some) = 0
  THEN {"Page map is required for chunking."}
  ELSE IF t.method \in {"by_sentences", "by_separators"} THEN LibErrors
  ELSE IF t.method \in {"by_pages", "fixed_size", "by_paragraphs"} THEN {}
  ELSE {"Unsupported chunking method: " \o t.method}

CallOutcomeAsAlone ==
  \A c \in DOMAIN threads :
    /\ threads[c].pc = "returned" =>
         /\ threads[c].document_data = Some(RecordAlone(threads[c]))
         /\ threads[c].exc = None
    /\ threads[c].pc \in {"except", "raised"} =>
         /\ threads[c].exc.some \in ErrorsAlone(threads[c])
         /\ threads[c].document_data = None
    /\ threads[c].pc \notin {"returned"} => threads[c].document_data = None

CallArgumentsKept ==
  \A c \in DOMAIN threads :
    /\ threads'[c].page_map = threads[c].page_map
    /\ threads'[c].metadata = threads[c].metadata

ConcurrentCallsIndependent ==
  /\ []CallOutcomeAsAlone
  /\ [][CallArgumentsKept]_vars

\* caller 1 has returned two chunks while the call of caller 2, which has
\* made a chunk of its own, is still at work
ConcurrentCallsIndependentWitness ==
  /\ DOMAIN threads = Callers
  /\ threads[1].pc = "returned"
  /\ Len(threads[1].document_data.some.chunks) = 2
  /\ threads[1].document_data.some.chunks[2].metadata.chunk_id = 2
  /\ threads[2].pc = "append"
  /\ Len(threads[2].chunks) = 1
  /\ threads[2].page_chunks # <<>>

====
